---------------------------- MODULE Spec2Model ----------------------------
(***************************************************************************)
(* Model of the update scheduler and of compute_sampling_image of the      *)
(* observatory add-on (sampling.py).                                       *)
(*                                                                         *)
(* Producers run compute_sampling_image or enqueue_image_pixel_update,     *)
(* the consumer runs execute_image_pixel_update or                         *)
(* execute_all_image_pixel_updates.  Every call of a queue.Queue method    *)
(* (empty, get_nowait, put_nowait) is one atomic step: queue.Queue guards  *)
(* each method with its own mutex, and nothing else.                       *)
(*                                                                         *)
(* Arithmetic: antenna coordinates are integers; Bmax is the square root   *)
(* of an integer and every comparison with it is decided exactly (real     *)
(* arithmetic, no float rounding).                                         *)
(***************************************************************************)
EXTENDS Integers, Sequences, FiniteSets, TLC

\* ------------------------------------------------------------- bounds
\* Number of job closures (enqueue calls) in one behaviour.
MaxJobs == 6
\* The same, in the specifications with two producers or with the wide input
\* sets.
MaxJobsWide == 4
\* Longest antenna list handed to compute_sampling_image.
MaxAntennas == 2
\* Antenna coordinates are drawn from 0..MaxCoord.
MaxCoord == 1
\* Largest configured image width/height.
MaxDim == 10
\* Longest array (in cells) handed to ndarray_to_pixels on its own.
MaxCells == 2
\* Cell values of those arrays are drawn from -1..MaxValue.
MaxValue == 4
\* Number of direct calls of enqueue_image_pixel_update in one behaviour.
MaxApiJobs == 3
\* Number of update_images_timer callbacks registered at one time.
MaxTimers == 2

\* ------------------------------------------------------ program constants
\* Mutant of maxsize: a queue that holds two jobs.
maxsize_two == 1 + 1

maxsize == 1
margin == 3

SlotNames == {"sampling", "pointspread"}

Producers == {1, 2}

\* A pixel buffer: its length (4 floats per source cell) and the source cells
\* whose value is not 0.0; kind tells the arrays apart ("mask": the sampling
\* array, "irfft2": its inverse transform, "raw": a caller's buffer).
NoPixels == [kind |-> "raw", len |-> 0, lit |-> {}]

\* A job closure: the variables it captures (get_image, pixels, width, height,
\* allow_resize).  get_image is get_image(image, create=create); id numbers
\* the closures in the order of their creation.
NoJob == [id |-> 0, image |-> "none", create |-> FALSE, pixels |-> NoPixels,
          width |-> 0, height |-> 0, allow_resize |-> FALSE]

\* An image datablock of bpy.data.images: exists is FALSE while
\* bpy.data.images.get(name) is None; job is the closure that last wrote it.
NoImage == [exists |-> FALSE, source |-> "none", width |-> 0, height |-> 0,
            pixels |-> NoPixels, job |-> 0]

VARIABLES
    q,          \* q[s]: contents of the queue.Queue of slot s (oldest first)
    nextId,     \* number of job closures created so far
    pcP,        \* pcP[p]: position of producer p
    pslot,      \* pslot[p]: slot of the enqueue producer p is in
    pjob,       \* pjob[p]: the job of that enqueue
    plocals,    \* plocals[p]: locals of compute_sampling_image:
                \*   n = len(antennas), w, h, Bmax2 = Bmax squared
    pret,       \* pret[p]: how that call ends: "True", "False", the exception
    pcells,     \* pcells[p]: index pairs the call uses on the sampling array
    pcC,        \* position of the consumer
    ccall,      \* "one": execute_image_pixel_update, "all": execute_all_...
    cslot,      \* slot the consumer is draining
    cjob,       \* job taken by get_nowait
    cret,       \* return value of the drain the consumer is in ("none": not yet)
    images,     \* images[s]: the image datablock of slot s
    \* history
    ran,        \* ran[i]: how often job i was executed
    enq,        \* enq[s]: id of the job of the last enqueue that returned
    dropped,    \* <<j, k>>: put_nowait(j) raised queue.Full while k was pending
    cleared,    \* ids of the jobs removed by the clear loop of an enqueue
    cstart,     \* q[cslot] when the drain the consumer is in was called
    cran,       \* id of the job that drain executed (0: none)
    \* the host: scene settings, timers, the operator
    auto,       \* scene.interferometry.auto_generate_images
    images_updated, \* scene.interferometry["images_updated"]
    timers,     \* number of registered update_images_timer callbacks
    tret,       \* what the last tick of update_images_timer returned
    caller,     \* who called the drain the consumer is in
    op,         \* position of ComputeSamplingImageOperator.execute
    enc,        \* the call of ndarray_to_pixels under study
    seen        \* history: seen[i]: the jobs both slots held when the last
                \* recorded call of compute_sampling_image with input i
                \* returned True

vars == <<q, nextId, pcP, pslot, pjob, plocals, pret, pcells, pcC, ccall, cslot, cjob,
          cret, images, ran, enq, dropped, cleared, cstart, cran,
          auto, images_updated, timers, tret, caller, op, enc, seen>>

prodVars == <<pcP, pslot, pjob, plocals, pret, pcells>>
consVars == <<pcC, ccall, cslot, cjob, cret, images, ran, cstart, cran>>
hostVars == <<auto, images_updated, timers, tret, caller, op, enc, seen>>

\* ------------------------------------------------------------ queue.Queue
empty(qs) == Len(qs) = 0

\* Queue.get(block): blocks (is not enabled) or raises queue.Empty on an
\* empty queue.
QueueGet(qs, block) ==
    IF Len(qs) = 0
    THEN [enabled |-> ~block, raised |-> TRUE, item |-> NoJob, q |-> qs]
    ELSE [enabled |-> TRUE, raised |-> FALSE, item |-> Head(qs), q |-> Tail(qs)]

\* Queue.put(item, block): blocks or raises queue.Full on a full queue.
QueuePut(qs, item, block) ==
    IF Len(qs) >= maxsize
    THEN [enabled |-> ~block, raised |-> TRUE, q |-> qs]
    ELSE [enabled |-> TRUE, raised |-> FALSE, q |-> Append(qs, item)]

\* Mutant of get_nowait: the item is read and left in the queue.
get_nowait_peek(qs) == [QueueGet(qs, FALSE) EXCEPT !.q = qs]

get_nowait(qs) == QueueGet(qs, FALSE)

\* Mutant of put_nowait: q.put(job), which waits for a free slot.
put_blocking(qs, item) == QueuePut(qs, item, TRUE)

put_nowait(qs, item) == QueuePut(qs, item, FALSE)

\* ------------------------------------------------------------------- Init
\* The inputs (antennas, image_width, image_height) of the calls that are
\* recorded in seen: two that pass the checks and differ in their result.
DetInputs ==
    {<< << <<1, 0>>, <<0, 0>> >>, MaxDim, MaxDim >>,
     << << <<0, 0>>, <<0, 1>> >>, MaxDim, MaxDim >>}

\* No call of ndarray_to_pixels.
NoEncoding == [array |-> <<>>, low |-> 0, high |-> 0, values |-> <<>>]

NoLocals == [antennas |-> <<>>, n |-> 0, w |-> 0, h |-> 0, baselines |-> {},
             Bmax2 |-> 0]

Init ==
    /\ q = [s \in SlotNames |-> <<>>]
    /\ nextId = 0
    /\ pcP = [p \in Producers |-> "idle"]
    /\ pslot = [p \in Producers |-> "sampling"]
    /\ pjob = [p \in Producers |-> NoJob]
    /\ plocals = [p \in Producers |-> NoLocals]
    /\ pret = [p \in Producers |-> "none"]
    /\ pcells = [p \in Producers |-> {}]
    /\ pcC = "idle"
    /\ ccall = "one"
    /\ cslot = "sampling"
    /\ cjob = NoJob
    /\ cret = "none"
    /\ images = [s \in SlotNames |-> NoImage]
    /\ ran = [i \in 1..MaxJobs |-> 0]
    /\ enq = [s \in SlotNames |-> 0]
    /\ dropped = {}
    /\ cleared = {}
    /\ cstart = <<>>
    /\ cran = 0
    /\ auto = FALSE
    /\ images_updated = FALSE
    /\ timers = 0
    /\ tret = "none"
    /\ caller = "none"
    /\ op = "idle"
    /\ enc = NoEncoding
    /\ seen = [i \in DetInputs |-> [s \in SlotNames |-> <<>>]]


\* --------------------------------------------- compute_sampling_image: data
Min(a, b) == IF a < b THEN a ELSE b

Abs(a) == IF a < 0 THEN 0 - a ELSE a

\* Mutant of Pairs: the inner loop runs over antennas[i:].
PairsFromSelf(antennas) ==
    {pr \in (1..Len(antennas)) \X (1..Len(antennas)) : pr[1] <= pr[2]}

\* The unordered pairs the two nested loops visit: enumerate(antennas) with
\* antennas[i+1:].
Pairs(antennas) ==
    {pr \in (1..Len(antennas)) \X (1..Len(antennas)) : pr[1] < pr[2]}

\* B = b.xy - a.xy for the pair (a, b) = (antennas[i], antennas[j]).
Baseline(antennas, pr) ==
    <<antennas[pr[2]][1] - antennas[pr[1]][1],
      antennas[pr[2]][2] - antennas[pr[1]][2]>>

\* Square of Vector.length.
Length2(B) == B[1] * B[1] + B[2] * B[2]

\* Square of Bmax after the first loop nest (Bmax starts at 0.0 and is raised
\* by every longer baseline).
Bmax2(antennas) ==
    LET ls == {Length2(Baseline(antennas, pr)) : pr \in Pairs(antennas)} \cup {0}
    IN CHOOSE m \in ls : \A l \in ls : l <= m

\* n * sqrt(M) <= c, decided on integers.
LeqSqrt(n, M, c) ==
    IF n >= 0 THEN c >= 0 /\ n * n * M <= c * c
              ELSE c >= 0 \/ n * n * M >= c * c

\* floor((a * sqrt(M) + c) / (2 * sqrt(M))) for M >= 1.
FloorHalf(a, c, M) ==
    LET K == Abs(a) + Abs(c) + 1
    IN CHOOSE k \in (0 - K)..K :
          /\ LeqSqrt(2 * k - a, M, c)
          /\ ~LeqSqrt(2 * (k + 1) - a, M, c)

\* int((a * sqrt(M) + c) / (2 * sqrt(M))): Python's int() truncates toward 0.
IntHalf(a, c, M) ==
    IF LeqSqrt(0 - a, M, c) THEN FloorHalf(a, c, M)
                            ELSE 0 - FloorHalf(0 - a, 0 - c, M)

\* Twice the numerator of scale = (0.5 * min(w, h) - margin) / Bmax.
Scale2(w, h) == Min(w, h) - 2 * margin

\* The index pair of the cell a baseline B marks, as Python computes it, with
\* s = B * scale and M = Bmax^2 > 0:
\*   s.x >= 0:  (int(0.5 + s.x), int(h/2 + 0.5 + s.y))
\*   else:      (int(0.5 + s.x), int(h/2 + 0.5 - s.y))
Cell(B, w, h, M) ==
    LET sx == B[1] * Scale2(w, h)      \* s.x * 2 * Bmax
        sy == B[2] * Scale2(w, h)      \* s.y * 2 * Bmax
    IN IF sx >= 0
       THEN <<IntHalf(1, sx, M), IntHalf(h + 1, sy, M)>>
       ELSE <<IntHalf(1, sx, M), IntHalf(h + 1, 0 - sy, M)>>

\* numpy accepts index i on an axis of n cells iff -n <= i < n; a negative
\* index wraps around to n + i.
IndexOk(i, n) == 0 - n <= i /\ i < n

\* sampling has shape (w + 1, h*2 + 1).
CellOk(c, w, h) == IndexOk(c[1], w + 1) /\ IndexOk(c[2], h * 2 + 1)

PairCell(antennas, pr, w, h) ==
    Cell(Baseline(antennas, pr), w, h, Bmax2(antennas))

\* Loop order of the pairs: (i, j) before (k, l).
Before(pr, ps) == pr[1] < ps[1] \/ (pr[1] = ps[1] /\ pr[2] < ps[2])

\* The index pairs the rasterization loop uses: those of every pair, in loop
\* order, up to and including the first one numpy rejects.
Cells(antennas, w, h) ==
    {PairCell(antennas, pr, w, h) :
        pr \in {ps \in Pairs(antennas) :
                  \A pt \in Pairs(antennas) :
                     Before(pt, ps) => CellOk(PairCell(antennas, pt, w, h), w, h)}}

\* The baselines of the two loop nests, each with the pair it comes from.
Baselines(antennas) ==
    {<<pr, Baseline(antennas, pr)>> : pr \in Pairs(antennas)}

\* The cell of the array an accepted index i stands for on an axis of n cells.
Wrap(i, n) == IF i < 0 THEN n + i ELSE i

\* The cells of sampling that hold 1.0 after the rasterization loop (all
\* other cells keep the 0.0 of np.zeros).
Marked(cells, w, h) ==
    {<<Wrap(c[1], w + 1), Wrap(c[2], h * 2 + 1)>> : c \in cells}

\* ndarray_to_pixels on an array of shape (w, h): 4 values per source cell;
\* lit are the source cells with a value other than 0.0.
PixelsOf(kind, w, h, lit) == [kind |-> kind, len |-> 4 * w * h, lit |-> lit]

\* Mutant of ComputeOutcome: "len(antennas) < 1".
ComputeOutcomeOneAntenna(antennas, w, h) ==
    IF Len(antennas) < 1 THEN "False"
    ELSE IF w < 1 \/ h < 1 THEN "False"
    ELSE IF Bmax2(antennas) = 0 THEN "ZeroDivisionError"
    ELSE "rasterize"

\* Mutant of ComputeOutcome: "w < 1 and h < 1".
ComputeOutcomeBothSizes(antennas, w, h) ==
    IF Len(antennas) < 2 THEN "False"
    ELSE IF w < 1 /\ h < 1 THEN "False"
    ELSE IF Bmax2(antennas) = 0 THEN "ZeroDivisionError"
    ELSE "rasterize"

\* compute_sampling_image up to "scale = ... / Bmax": "False" for a rejected
\* input, the exception the division raises when Bmax is 0.0, or "rasterize"
\* when it goes on.
ComputeOutcome(antennas, w, h) ==
    IF Len(antennas) < 2 THEN "False"
    ELSE IF w < 1 \/ h < 1 THEN "False"
    ELSE IF Bmax2(antennas) = 0 THEN "ZeroDivisionError"
    ELSE "rasterize"

\* The job of the first enqueue: width = sampling.shape[0],
\* height = sampling.shape[1], allow_resize = True.
SamplingJob(id, w, h, cells) ==
    [id |-> id, image |-> "sampling", create |-> TRUE,
     pixels |-> PixelsOf("mask", w + 1, h * 2 + 1, Marked(cells, w, h)),
     width |-> w + 1, height |-> h * 2 + 1, allow_resize |-> TRUE]

\* The job of the second enqueue: pointspread = irfft2(sampling, s=(w, h)).
PointspreadJob(id, w, h, cells) ==
    [id |-> id, image |-> "pointspread", create |-> TRUE,
     pixels |-> PixelsOf("irfft2", w, h, Marked(cells, w, h)),
     width |-> w, height |-> h, allow_resize |-> TRUE]

\* ------------------------------------------------------------ input sets
Positions == (0..MaxCoord) \X (0..MaxCoord)

AntennaLists == UNION {[1..n -> Positions] : n \in 0..MaxAntennas}

Dims == {0, 1, MaxDim}

\* Inputs of the interleaved specifications: one rejected and one accepted
\* antenna list, one rejected and one accepted size.
FewAntennaLists == {<< <<0, 0>> >>, << <<1, 0>>, <<0, 0>> >>}

FewDims == {0, MaxDim}

\* Values of image_width and image_height the property allows (min=1).
SceneDims == {1, MaxDim}



\* ------------------------------------------------- compute_sampling_image
\* Job closures already promised to the producers that are inside
\* compute_sampling_image.
Promised(p) ==
    IF pcP[p] = "raster" THEN 2
    ELSE IF /\ pcP[p] \in {"clear_test", "clear_get", "put"}
            /\ pslot[p] = "sampling" /\ plocals[p].n >= 2
         THEN 1
    ELSE 0

RECURSIVE SumPromised(_)
SumPromised(ps) ==
    IF ps = {} THEN 0
    ELSE LET p == CHOOSE x \in ps : TRUE
         IN Promised(p) + SumPromised(ps \ {p})

Committed == nextId + SumPromised(Producers)

\* compute_sampling_image(scene, antennas) from the call to the rasterization
\* loop: the checks, the Bmax loops and scale touch locals only.  It returns
\* False, raises, or reaches the loop with the index pairs the loop will use.
ComputeCalled(p, antennas, w, h) ==
    /\ pcP[p] = "idle"
    /\ LET out == ComputeOutcome(antennas, w, h) IN
       IF out = "rasterize"
       THEN /\ Committed + 2 <= MaxJobs
            /\ plocals' = [plocals EXCEPT ![p] =
                             [antennas |-> antennas, n |-> Len(antennas),
                              w |-> w, h |-> h,
                              baselines |-> Baselines(antennas),
                              Bmax2 |-> Bmax2(antennas)]]
            /\ pcells' = [pcells EXCEPT ![p] = Cells(antennas, w, h)]
            /\ pcP' = [pcP EXCEPT ![p] = "raster"]
            /\ UNCHANGED pret
       ELSE /\ plocals' = [plocals EXCEPT ![p] =
                             [antennas |-> antennas, n |-> Len(antennas),
                              w |-> w, h |-> h,
                              baselines |-> IF out = "False" THEN {}
                                            ELSE Baselines(antennas),
                              Bmax2 |-> 0]]
            /\ pret' = [pret EXCEPT ![p] = out]
            /\ pcP' = [pcP EXCEPT ![p] = "return"]
            /\ UNCHANGED pcells
    /\ UNCHANGED <<q, nextId, pslot, pjob, enq, dropped, cleared>>

\* A call of compute_sampling_image by a caller that drops its result
\* (generate_images) or is not modelled further.
CallCompute(p, antennas, w, h) ==
    /\ ComputeCalled(p, antennas, w, h)
    /\ UNCHANGED consVars
    /\ UNCHANGED hostVars

\* The rasterization loop "sampling[..., ...] = 1.0": numpy raises IndexError
\* on an index outside the array and the exception leaves
\* compute_sampling_image; otherwise irfft2 and ndarray_to_pixels run on
\* locals and enqueue_image_pixel_update is entered for sampling_queue.
Rasterize(p) ==
    /\ pcP[p] = "raster"
    /\ IF \E c \in pcells[p] : ~CellOk(c, plocals[p].w, plocals[p].h)
       THEN /\ pret' = [pret EXCEPT ![p] = "IndexError"]
            /\ pcP' = [pcP EXCEPT ![p] = "return"]
            /\ UNCHANGED <<pslot, pjob, nextId>>
       ELSE /\ pslot' = [pslot EXCEPT ![p] = "sampling"]
            /\ pjob' = [pjob EXCEPT ![p] =
                          SamplingJob(nextId + 1, plocals[p].w, plocals[p].h,
                                      pcells[p])]
            /\ nextId' = nextId + 1
            /\ pcP' = [pcP EXCEPT ![p] = "clear_test"]
            /\ UNCHANGED pret
    /\ UNCHANGED <<q, plocals, pcells, enq, dropped, cleared>>
    /\ UNCHANGED consVars
    /\ UNCHANGED hostVars

\* compute_sampling_image (or a direct enqueue_image_pixel_update) is left,
\* by a return or an exception: its locals are gone.
LeaveCompute(p) ==
    /\ pcP[p] = "return"
    /\ pcP' = [pcP EXCEPT ![p] = "idle"]
    /\ pret' = [pret EXCEPT ![p] = "none"]
    /\ plocals' = [plocals EXCEPT ![p] = NoLocals]
    /\ pcells' = [pcells EXCEPT ![p] = {}]
    /\ pslot' = [pslot EXCEPT ![p] = "sampling"]
    /\ pjob' = [pjob EXCEPT ![p] = NoJob]
    /\ UNCHANGED <<q, nextId, enq, dropped, cleared>>

\* Mutant of ComputeReturn: the caller (generate_images) goes on as the
\* operator does, "sampling.execute_all_image_pixel_updates(world)" after a
\* successful compute.
ComputeReturnDrains(p) ==
    /\ ~(p = 1 /\ op = "compute")
    /\ LeaveCompute(p)
    /\ IF pret[p] = "True" /\ pcC = "idle"
       THEN /\ ccall' = "all"
            /\ cslot' = "sampling"
            /\ pcC' = "test"
            /\ cjob' = NoJob
            /\ cstart' = q["sampling"]
            /\ cran' = 0
            /\ cret' = "none"
            /\ caller' = "handler"
            /\ UNCHANGED <<images, ran>>
       ELSE UNCHANGED <<consVars, caller>>
    /\ UNCHANGED <<auto, images_updated, timers, tret, op, enc, seen>>

\* The return to a caller that drops the result: generate_images (props.py),
\* or a caller that is not modelled further.
ComputeReturn(p) ==
    /\ ~(p = 1 /\ op = "compute")
    /\ LeaveCompute(p)
    /\ UNCHANGED consVars
    /\ UNCHANGED hostVars

\* What a slot holds, apart from the numbering of the closures.
Held(qs) == [k \in 1..Len(qs) |-> [qs[k] EXCEPT !.id = 0]]

\* ComputeReturn, with the jobs the slots hold at a return of True recorded
\* in seen.
RecordedReturn(p) ==
    /\ ~(p = 1 /\ op = "compute")
    /\ LeaveCompute(p)
    /\ seen' = IF pret[p] = "True"
               THEN [seen EXCEPT ![<<plocals[p].antennas, plocals[p].w,
                                     plocals[p].h>>] =
                                       [s \in SlotNames |-> Held(q[s])]]
               ELSE seen
    /\ UNCHANGED <<auto, images_updated, timers, tret, caller, op, enc>>
    /\ UNCHANGED consVars

\* ---------------------------------------------- enqueue_image_pixel_update
\* A direct call enqueue_image_pixel_update(q, get_image, pixels, width,
\* height, allow_resize) on the queue of slot s, with
\* get_image = lambda scene: scene.interferometry.get_image(name, create).
CallEnqueue(p, s, create, width, height, allow_resize) ==
    /\ pcP[p] = "idle"
    /\ Committed + 1 <= MaxApiJobs
    /\ pslot' = [pslot EXCEPT ![p] = s]
    /\ pjob' = [pjob EXCEPT ![p] =
                  [id |-> nextId + 1, image |-> s, create |-> create,
                   pixels |-> PixelsOf("raw", width, height, {}),
                   width |-> width, height |-> height,
                   allow_resize |-> allow_resize]]
    /\ nextId' = nextId + 1
    /\ pcP' = [pcP EXCEPT ![p] = "clear_test"]
    /\ UNCHANGED <<q, plocals, pret, pcells, enq, dropped, cleared>>
    /\ UNCHANGED consVars
    /\ UNCHANGED hostVars

\* Mutant of ClearLoopTest: the clear loop is never entered.
ClearLoopSkipped(qs) == FALSE

\* Mutant of ClearLoopTest: the loop test is inverted.
ClearLoopInverted(qs) == empty(qs)

\* "while not q.empty():" of the clear loop
ClearLoopTest(qs) == ~empty(qs)

EnqueueClearTest(p) ==
    /\ pcP[p] = "clear_test"
    /\ pcP' = [pcP EXCEPT ![p] = IF ClearLoopTest(q[pslot[p]]) THEN "clear_get"
                                                              ELSE "put"]
    /\ UNCHANGED <<q, nextId, pslot, pjob, plocals, pret, pcells, enq,
                   dropped, cleared>>
    /\ UNCHANGED consVars
    /\ UNCHANGED hostVars

\* "q.get_nowait()" of the clear loop; queue.Empty breaks out of the loop.
EnqueueClearGet(p) ==
    /\ pcP[p] = "clear_get"
    /\ LET r == get_nowait(q[pslot[p]]) IN
       /\ r.enabled
       /\ q' = [q EXCEPT ![pslot[p]] = r.q]
       /\ cleared' = IF r.raised THEN cleared ELSE cleared \cup {r.item.id}
       /\ pcP' = [pcP EXCEPT ![p] = IF r.raised THEN "put" ELSE "clear_test"]
    /\ UNCHANGED <<nextId, pslot, pjob, plocals, pret, pcells, enq,
                   dropped>>
    /\ UNCHANGED consVars
    /\ UNCHANGED hostVars

\* "q.put_nowait(job)" with queue.Full swallowed, and the return.  The return
\* from the first enqueue of compute_sampling_image leads into the second one,
\* on pointspread_queue; after the second one compute_sampling_image returns
\* True.  A direct call of enqueue_image_pixel_update (no locals of
\* compute_sampling_image) returns None.
EnqueuePut(p) ==
    /\ pcP[p] = "put"
    /\ LET s == pslot[p]
           r == put_nowait(q[s], pjob[p]) IN
       /\ r.enabled
       /\ q' = [q EXCEPT ![s] = r.q]
       /\ dropped' = IF r.raised
                     THEN dropped \cup {<<pjob[p].id, Head(q[s]).id>>}
                     ELSE dropped
       /\ enq' = [enq EXCEPT ![s] = pjob[p].id]
       /\ IF plocals[p].n >= 2 /\ s = "sampling"
          THEN /\ pslot' = [pslot EXCEPT ![p] = "pointspread"]
               /\ pjob' = [pjob EXCEPT ![p] =
                             PointspreadJob(nextId + 1, plocals[p].w,
                                            plocals[p].h, pcells[p])]
               /\ nextId' = nextId + 1
               /\ pcP' = [pcP EXCEPT ![p] = "clear_test"]
               /\ UNCHANGED pret
          ELSE /\ pcP' = [pcP EXCEPT ![p] = "return"]
               /\ pret' = [pret EXCEPT ![p] = IF plocals[p].n >= 2 THEN "True"
                                                                 ELSE "None"]
               /\ UNCHANGED <<pslot, pjob, nextId>>
    /\ UNCHANGED <<plocals, pcells, cleared>>
    /\ UNCHANGED consVars
    /\ UNCHANGED hostVars

\* ---------------------------------------------- execute_image_pixel_update
\* The consumer enters execute_image_pixel_update(q, scene) for slot s.
EnterExecute(s) ==
    /\ cslot' = s
    /\ pcC' = "test"
    /\ cjob' = NoJob
    /\ cstart' = q[s]
    /\ cran' = 0
    /\ cret' = "none"

\* "return True" / "return False"
ReturnExecute(value) ==
    /\ cret' = value
    /\ pcC' = "ret"

\* A direct call of execute_image_pixel_update.
CallExecute(s) ==
    /\ pcC = "idle"
    /\ ccall' = "one"
    /\ EnterExecute(s)
    /\ UNCHANGED <<q, nextId, enq, dropped, cleared, images, ran>>
    /\ UNCHANGED prodVars
    /\ UNCHANGED hostVars

\* execute_all_image_pixel_updates(scene): sampling_queue first.
CallExecuteAll ==
    /\ pcC = "idle"
    /\ ccall' = "all"
    /\ EnterExecute("sampling")
    /\ UNCHANGED <<q, nextId, enq, dropped, cleared, images, ran>>
    /\ UNCHANGED prodVars
    /\ UNCHANGED hostVars

\* "while not q.empty():" of execute_image_pixel_update
DrainLoopTest(qs) == ~empty(qs)

\* The loop test, falling through to "return False".
ExecuteTest ==
    /\ pcC = "test"
    /\ IF DrainLoopTest(q[cslot])
       THEN /\ pcC' = "get"
            /\ UNCHANGED cret
       ELSE ReturnExecute("False")
    /\ UNCHANGED <<q, nextId, enq, dropped, cleared, images, ran, ccall, cslot,
                   cjob, cstart, cran>>
    /\ UNCHANGED prodVars
    /\ UNCHANGED hostVars

\* "job = q.get_nowait()"; queue.Empty returns False.
ExecuteGet ==
    /\ pcC = "get"
    /\ LET r == get_nowait(q[cslot]) IN
       /\ r.enabled
       /\ q' = [q EXCEPT ![cslot] = r.q]
       /\ IF r.raised
          THEN /\ ReturnExecute("False")
               /\ UNCHANGED cjob
          ELSE /\ cjob' = r.item
               /\ pcC' = "job"
               /\ UNCHANGED cret
    /\ UNCHANGED <<nextId, enq, dropped, cleared, images, ran, ccall, cslot,
                   cstart, cran>>
    /\ UNCHANGED prodVars
    /\ UNCHANGED hostVars

\* InterferometrySettings.get_image(name, create) with
\* data_links.get_image_data_prop: the datablock of that name, made by
\* bpy.data.images.new(name, image_width, image_height) when create is set and
\* there is none; exists is FALSE in the result when it returns None.
get_image(img, create, image_width, image_height) ==
    IF create /\ ~img.exists
    THEN [exists |-> TRUE, source |-> "GENERATED", width |-> image_width,
          height |-> image_height,
          pixels |-> PixelsOf("raw", image_width, image_height, {}), job |-> 0]
    ELSE img

\* update_image_pixels(image, pixels, width, height, allow_resize): the
\* image after the call, or the AssertionError of a failed assert.
update_image_pixels(image, job) ==
    IF job.allow_resize
    THEN [raised |-> FALSE,
          image |-> [image EXCEPT !.source = "GENERATED",
                                  !.width = job.width, !.height = job.height,
                                  !.pixels = job.pixels, !.job = job.id]]
    ELSE IF \/ image.source # "GENERATED"
            \/ image.width # job.width
            \/ image.height # job.height
         THEN [raised |-> TRUE, image |-> image]
         ELSE [raised |-> FALSE,
               image |-> [image EXCEPT !.pixels = job.pixels, !.job = job.id]]

\* "job(scene); return True": the closure calls get_image(scene) and, unless
\* that is None, update_image_pixels.  An AssertionError leaves
\* execute_image_pixel_update, which catches queue.Empty only.
\* image_width, image_height: the scene's settings at this moment.
ExecuteJob(image_width, image_height) ==
    /\ pcC = "job"
    /\ LET image == get_image(images[cjob.image], cjob.create,
                              image_width, image_height)
           r == update_image_pixels(image, cjob)
       IN IF ~image.exists
          THEN /\ UNCHANGED images
               /\ ReturnExecute("True")
          ELSE /\ images' = [images EXCEPT ![cjob.image] = r.image]
               /\ ReturnExecute(IF r.raised THEN "AssertionError" ELSE "True")
    /\ ran' = [ran EXCEPT ![cjob.id] = @ + 1]
    /\ cran' = cjob.id
    /\ UNCHANGED <<q, nextId, enq, dropped, cleared, ccall, cslot, cjob, cstart>>
    /\ UNCHANGED prodVars
    /\ UNCHANGED hostVars

\* The return (or the exception leaving the call):
\* execute_all_image_pixel_updates goes on to pointspread_queue after the
\* first drain returned; otherwise the call is over, its locals are gone and
\* its caller goes on: update_images_timer returns the interval (the timer
\* stays registered), ComputeSamplingImageOperator.execute returns FINISHED.
ExecuteReturn ==
    /\ pcC = "ret"
    /\ IF ccall = "all" /\ cslot = "sampling" /\ cret \in {"True", "False"}
       THEN /\ EnterExecute("pointspread")
            /\ UNCHANGED <<ccall, caller, tret, op>>
       ELSE /\ pcC' = "idle"
            /\ ccall' = "one"
            /\ cslot' = "sampling"
            /\ cjob' = NoJob
            /\ cstart' = <<>>
            /\ cran' = 0
            /\ cret' = "none"
            /\ caller' = "none"
            /\ tret' = IF caller = "timer" THEN "interval" ELSE tret
            /\ op' = IF caller = "operator" THEN "FINISHED" ELSE op
    /\ UNCHANGED <<q, nextId, enq, dropped, cleared, images, ran>>
    /\ UNCHANGED <<auto, images_updated, timers, enc, seen>>
    /\ UNCHANGED prodVars

\* ------------------------------------------------------------------- host
\* The main thread runs the operator, the timers and the property updates,
\* one at a time.
MainThreadFree == op = "idle" /\ pcC = "idle" /\ pcP[1] = "idle"

\* What data_links.find_antennas returns: None (found is FALSE) or a list of
\* antenna positions.
FindAntennas ==
    {[found |-> FALSE, antennas |-> <<>>]}
    \cup {[found |-> TRUE, antennas |-> a] : a \in FewAntennaLists}

\* ComputeSamplingImageOperator.execute up to the call of
\* compute_sampling_image: CANCELLED when find_antennas returns None.
OperatorExecute(found, w, h) ==
    /\ MainThreadFree
    /\ IF ~found.found
       THEN /\ op' = "CANCELLED"
            /\ UNCHANGED <<q, nextId, enq, dropped, cleared>>
            /\ UNCHANGED prodVars
       ELSE /\ op' = "compute"
            /\ ComputeCalled(1, found.antennas, w, h)
    /\ UNCHANGED <<auto, images_updated, timers, tret, caller, enc, seen>>
    /\ UNCHANGED consVars

\* Mutant of OperatorCancels: the result of compute_sampling_image is ignored.
OperatorNeverCancels(ret) == FALSE

\* "if not sampling.compute_sampling_image(world, antennas):"
OperatorCancels(ret) == ret # "True"

\* compute_sampling_image returns into the operator: CANCELLED on False,
\* otherwise execute_all_image_pixel_updates(world) is entered; an exception
\* leaves the operator.
OperatorComputeReturn ==
    /\ op = "compute"
    /\ LeaveCompute(1)
    /\ IF pret[1] \notin {"True", "False"}
       THEN /\ op' = "raised"
            /\ UNCHANGED <<consVars, caller>>
       ELSE IF OperatorCancels(pret[1])
       THEN /\ op' = "CANCELLED"
            /\ UNCHANGED <<consVars, caller>>
       ELSE /\ op' = "drain"
            /\ caller' = "operator"
            /\ ccall' = "all"
            /\ EnterExecute("sampling")
            /\ UNCHANGED <<images, ran>>
    /\ UNCHANGED <<auto, images_updated, timers, tret, enc, seen>>

\* The operator has returned {'CANCELLED'} or {'FINISHED'}, or raised.
OperatorReturn ==
    /\ op \in {"CANCELLED", "FINISHED", "raised"}
    /\ op' = "idle"
    /\ UNCHANGED <<q, nextId, enq, dropped, cleared>>
    /\ UNCHANGED <<auto, images_updated, timers, tret, caller, enc, seen>>
    /\ UNCHANGED prodVars
    /\ UNCHANGED consVars

\* Assignment to auto_generate_images, with its update callback
\* auto_generate_images_update: a timer is registered when the flag is set.
SetAutoGenerateImages(value) ==
    /\ MainThreadFree
    /\ value => timers < MaxTimers
    /\ auto' = value
    /\ timers' = IF value THEN timers + 1 ELSE timers
    /\ UNCHANGED <<q, nextId, enq, dropped, cleared>>
    /\ UNCHANGED <<images_updated, tret, caller, op, enc, seen>>
    /\ UNCHANGED prodVars
    /\ UNCHANGED consVars

\* Assignment to auto_generate_images_interval: the same update callback.
SetAutoGenerateImagesInterval ==
    /\ MainThreadFree
    /\ auto
    /\ timers < MaxTimers
    /\ timers' = timers + 1
    /\ UNCHANGED <<q, nextId, enq, dropped, cleared>>
    /\ UNCHANGED <<auto, images_updated, tret, caller, op, enc, seen>>
    /\ UNCHANGED prodVars
    /\ UNCHANGED consVars

\* Mutant of TimerStops: the timer never unregisters itself.
TimerNeverStops(flag) == FALSE

\* "if not scene.interferometry.auto_generate_images:" of update_images_timer
TimerStops(flag) == ~flag

\* A tick of one registered update_images_timer: it returns None (bpy drops
\* the timer) or enters execute_all_image_pixel_updates(scene); the return
\* of the interval is part of ExecuteReturn.
UpdateImagesTimer ==
    /\ MainThreadFree
    /\ timers > 0
    /\ IF TimerStops(auto)
       THEN /\ timers' = timers - 1
            /\ tret' = "None"
            /\ UNCHANGED <<consVars, caller>>
       ELSE /\ caller' = "timer"
            /\ ccall' = "all"
            /\ EnterExecute("sampling")
            /\ UNCHANGED <<images, ran, timers, tret>>
    /\ UNCHANGED <<q, nextId, enq, dropped, cleared>>
    /\ UNCHANGED <<auto, images_updated, op, enc, seen>>
    /\ UNCHANGED prodVars

\* depsgraph_handler_pre: depends is what contains_image_dependency returns.
DepsgraphHandlerPre(depends) ==
    /\ auto
    /\ images_updated' = depends
    /\ UNCHANGED <<q, nextId, enq, dropped, cleared>>
    /\ UNCHANGED <<auto, timers, tret, caller, op, enc, seen>>
    /\ UNCHANGED prodVars
    /\ UNCHANGED consVars

\* depsgraph_handler_post with generate_images: compute_sampling_image is
\* called (by producer 2) unless find_antennas returns None.
DepsgraphHandlerPost(found, w, h) ==
    /\ auto
    /\ images_updated
    /\ found.found
    /\ CallCompute(2, found.antennas, w, h)

\* -------------------------------------------------------- ndarray_to_pixels
Max(a, b) == IF a > b THEN a ELSE b

\* np.clip(x, lo, hi) = minimum(maximum(x, lo), hi)
np_clip(x, lo, hi) == Min(Max(x, lo), hi)

\* One cell of "np.clip(array / (mapping[1] - mapping[0]) - mapping[0],
\* mapping[0], mapping[1])", as a numerator over high - low (> 0):
\* x / (high - low) - low = (x - low * (high - low)) / (high - low).
PixelValue(x, low, high) ==
    np_clip(x - low * (high - low), low * (high - low), high * (high - low))

\* ndarray_to_pixels(array, mapping = (low, high)) for integer cell values and
\* low < high; array lists the cells in the order flatten() visits them.  The
\* result lists np.dstack((values, values, values, ones)).flatten(), every
\* value as a numerator over high - low (1.0 is high - low).
ndarray_to_pixels(array, low, high) ==
    [i \in 1..(4 * Len(array)) |->
        IF i % 4 = 0 THEN high - low
        ELSE PixelValue(array[((i - 1) \div 4) + 1], low, high)]

CellValues == (0 - 1)..MaxValue

Arrays == UNION {[1..n -> CellValues] : n \in 0..MaxCells}

\* Mappings (low, high) with low < high.
Mappings == {m \in ((0 - 1)..2) \X ((0 - 1)..2) : m[1] < m[2]}

\* A call of ndarray_to_pixels.
CallNdarrayToPixels(array, low, high) ==
    /\ enc = NoEncoding
    /\ enc' = [array |-> array, low |-> low, high |-> high,
               values |-> ndarray_to_pixels(array, low, high)]
    /\ UNCHANGED <<q, nextId, enq, dropped, cleared>>
    /\ UNCHANGED <<auto, images_updated, timers, tret, caller, op>>
    /\ UNCHANGED seen
    /\ UNCHANGED prodVars
    /\ UNCHANGED consVars

\* Its return.
ReturnNdarrayToPixels ==
    /\ enc # NoEncoding
    /\ enc' = NoEncoding
    /\ UNCHANGED <<q, nextId, enq, dropped, cleared>>
    /\ UNCHANGED <<auto, images_updated, timers, tret, caller, op>>
    /\ UNCHANGED seen
    /\ UNCHANGED prodVars
    /\ UNCHANGED consVars

\* --------------------------------------------------------- specifications
ProducerStep(p) ==
    \/ Rasterize(p)
    \/ ComputeReturn(p)
    \/ EnqueueClearTest(p)
    \/ EnqueueClearGet(p)
    \/ EnqueuePut(p)

ConsumerStep ==
    \/ ExecuteTest
    \/ ExecuteGet
    \/ \E w, h \in SceneDims : ExecuteJob(w, h)
    \/ ExecuteReturn

ConsumerCall ==
    \/ \E s \in SlotNames : CallExecute(s)
    \/ CallExecuteAll

\* Two producers (the operator on the main thread, the depsgraph handler of
\* another thread) and the consumer, interleaved at queue calls.
Next ==
    \/ /\ Committed + 2 <= MaxJobsWide
       /\ \E p \in Producers : \E a \in FewAntennaLists : \E w, h \in FewDims :
             CallCompute(p, a, w, h)
    \/ \E p \in Producers : ProducerStep(p)
    \/ ConsumerCall
    \/ ConsumerStep

Spec == Init /\ [][Next]_vars

\* One producer and the consumer, interleaved at queue calls.
NextSP ==
    \/ \E a \in FewAntennaLists : \E w, h \in FewDims : CallCompute(1, a, w, h)
    \/ ProducerStep(1)
    \/ ConsumerCall
    \/ ConsumerStep

SpecSP == Init /\ [][NextSP]_vars

\* One producer running compute_sampling_image and a consumer running
\* execute_all_image_pixel_updates, interleaved at queue calls.
NextPair ==
    \/ \E a \in FewAntennaLists : \E w, h \in FewDims : CallCompute(1, a, w, h)
    \/ ProducerStep(1)
    \/ CallExecuteAll
    \/ ConsumerStep

SpecPair == Init /\ [][NextPair]_vars

\* Calls that do not overlap: a call starts only when nobody is inside one.
AllIdle == pcC = "idle" /\ \A p \in Producers : pcP[p] = "idle"

\* The inputs of a call in SpecSeq: any antenna list and size of the wide
\* sets until the first jobs exist; after that any rejected input of the wide
\* sets, and the accepted ones of the few sets.
SeqInput(a, w, h) ==
    \/ nextId = 0
    \/ ComputeOutcome(a, w, h) # "rasterize"
    \/ a \in FewAntennaLists /\ w \in FewDims /\ h \in FewDims

NextSeq ==
    \/ /\ AllIdle
       /\ Committed + 2 <= MaxJobsWide
       /\ \E a \in AntennaLists : \E w, h \in Dims :
             SeqInput(a, w, h) /\ CallCompute(1, a, w, h)
    \/ ProducerStep(1)
    \/ AllIdle /\ ConsumerCall
    \/ ConsumerStep

SpecSeq == Init /\ [][NextSeq]_vars

\* The add-on inside the host: the operator, the property updates and the
\* timers on the main thread, the depsgraph handlers beside it.
NextHost ==
    \/ /\ Committed + 2 <= MaxJobsWide
       /\ \E found \in FindAntennas : \E w, h \in FewDims :
             OperatorExecute(found, w, h)
    \/ OperatorComputeReturn
    \/ OperatorReturn
    \/ \E value \in BOOLEAN : SetAutoGenerateImages(value)
    \/ SetAutoGenerateImagesInterval
    \/ UpdateImagesTimer
    \/ \E depends \in BOOLEAN : DepsgraphHandlerPre(depends)
    \/ /\ Committed + 2 <= MaxJobsWide
       /\ \E found \in FindAntennas : \E w, h \in FewDims :
             DepsgraphHandlerPost(found, w, h)
    \/ \E p \in Producers : ProducerStep(p)
    \/ ConsumerStep

SpecHost == Init /\ [][NextHost]_vars

\* Calls of compute_sampling_image on the inputs of DetInputs and drains,
\* one after the other.
NextDet ==
    \/ /\ AllIdle
       /\ \E i \in DetInputs : CallCompute(1, i[1], i[2], i[3])
    \/ Rasterize(1)
    \/ EnqueueClearTest(1)
    \/ EnqueueClearGet(1)
    \/ EnqueuePut(1)
    \/ RecordedReturn(1)
    \/ AllIdle /\ ConsumerCall
    \/ ConsumerStep

SpecDet == Init /\ [][NextDet]_vars

\* Direct calls of enqueue_image_pixel_update and of the drains, one after
\* the other, with any get_image and resize flag.
NextApi ==
    \/ /\ AllIdle
       /\ \E s \in SlotNames : \E create, allow_resize \in BOOLEAN :
          \E size \in SceneDims :
             CallEnqueue(1, s, create, size, size, allow_resize)
    \/ EnqueueClearTest(1)
    \/ EnqueueClearGet(1)
    \/ EnqueuePut(1)
    \/ ComputeReturn(1)
    \/ AllIdle /\ ConsumerCall
    \/ ConsumerStep

SpecApi == Init /\ [][NextApi]_vars

\* ndarray_to_pixels on its own, called on any array and mapping.
NextEnc ==
    \/ \E array \in Arrays : \E m \in Mappings :
          CallNdarrayToPixels(array, m[1], m[2])
    \/ ReturnNdarrayToPixels

SpecEnc == Init /\ [][NextEnc]_vars

\* ------------------------------------------------------------------ claims
\* C1 (SpecSeq): with calls that do not overlap, a drain of a slot executes
\* the job of the most recent enqueue on that slot and nothing else: a job that
\* a later enqueue removed while it was pending is never executed, and a drain
\* that finds nothing pending executes no job and returns False.
C1_LatestJobOnly ==
    /\ \A j \in cleared : ran[j] = 0
    /\ pcC = "ret" =>
          IF cstart = <<>>
          THEN cran = 0 /\ cret = "False"
          ELSE cran = enq[cslot] /\ ran[cran] = 1 /\ cret = "True"

\* Job 1 (A) was pending when job 3 (B) was enqueued on the sampling slot, a
\* drain executed B, A never ran, and a further drain found nothing pending.
C1_Witness ==
    /\ pcC = "ret" /\ cslot = "sampling"
    /\ cstart = <<>> /\ cret = "False" /\ cran = 0
    /\ 1 \in cleared /\ ran[1] = 0 /\ ran[3] = 1

\* C2 (SpecSP): one producer and one consumer, interleaved at queue calls:
\* the job the consumer's get_nowait takes is the job of the most recent
\* enqueue that has returned on that slot.
C2_TakesLatest ==
    [][(pcC = "get" /\ pcC' = "job") => cjob'.id = enq[cslot]]_vars

\* The consumer took job 1 between the producer's loop test and its
\* get_nowait, inside the enqueue of job 3.
C2_Witness ==
    /\ pcC = "job" /\ cjob.id = 1 /\ cslot = "sampling"
    /\ pcP[1] = "clear_get" /\ pslot[1] = "sampling" /\ pjob[1].id = 3
    /\ q["sampling"] = <<>>

\* C3 (Spec): when enqueue(J) returns, J is pending, or was executed, or was
\* replaced by an enqueue that started later: whenever put_nowait(J) raises
\* queue.Full, the job that stays pending belongs to an enqueue that started
\* after the one of J (job ids are given in the order the enqueues start).
C3_EnqueueInstalls ==
    \A d \in dropped : d[2] > d[1]

\* C4 (Spec): each of the two queues holds at most one pending job.
C4_AtMostOnePending ==
    \A s \in SlotNames : Len(q[s]) <= 1

\* A put_nowait met a full queue, and both slots hold a job.
C4_Witness ==
    /\ dropped # {}
    /\ \A s \in SlotNames : Len(q[s]) = 1

\* C5 (SpecSeq): a drain of a slot with a pending job removes that job and
\* executes it once, and returns True; a drain of an empty slot executes
\* nothing, returns False and leaves the slot empty; the return value is True
\* exactly when a job ran; no job is ever executed twice.
C5_DrainExactlyOnce ==
    /\ \A j \in 1..MaxJobs : ran[j] <= 1
    /\ pcC = "ret" =>
          /\ (cret = "True") <=> (cran # 0)
          /\ q[cslot] = <<>>
          /\ cstart # <<>> => cret = "True" /\ cran = Head(cstart).id
          /\ cstart = <<>> => cret = "False"

\* A drain that found the pointspread job of the second compute pending has
\* executed it, after an earlier drain executed the sampling job.
C5_Witness ==
    /\ pcC = "ret" /\ cslot = "pointspread"
    /\ cstart # <<>> /\ cret = "True" /\ cran = 4 /\ ran[4] = 1 /\ ran[3] = 1
    /\ q["pointspread"] = <<>>

\* C6 (Spec): neither side ever waits: a producer inside
\* compute_sampling_image and the consumer inside a drain can always take
\* their next step, whatever the other processes have done, and a drain that
\* meets an empty queue at its loop test or at get_nowait returns False with
\* its next step.
C6_NeverWaits ==
    /\ \A p \in Producers : pcP[p] # "idle" =>
          ENABLED (Rasterize(p) \/ ComputeReturn(p) \/ EnqueueClearTest(p)
                   \/ EnqueueClearGet(p) \/ EnqueuePut(p))
    /\ pcC # "idle" =>
          ENABLED (ExecuteTest \/ ExecuteGet \/ ExecuteReturn
                   \/ \E w, h \in SceneDims : ExecuteJob(w, h))
    /\ (pcC = "test" /\ empty(q[cslot])) =>
          ENABLED (ExecuteTest /\ pcC' = "ret" /\ cret' = "False")
    /\ (pcC = "get" /\ empty(q[cslot])) =>
          ENABLED (ExecuteGet /\ pcC' = "ret" /\ cret' = "False")

\* A producer is about to call put_nowait on a full queue (another producer
\* filled it after this one's loop test).
C6_Witness ==
    \E p \in Producers :
        pcP[p] = "put" /\ Len(q[pslot[p]]) = maxsize

\* C7 (SpecSeq): a call of compute_sampling_image with fewer than 2 antennas
\* returns False at once; neither queue changes and no job is created, at the
\* call and at the return.
C7_TooFewAntennas ==
    [][\A p \in Producers :
          /\ (pcP[p] = "idle" /\ pcP'[p] # "idle" /\ plocals'[p].n < 2) =>
                /\ pcP'[p] = "return" /\ pret'[p] = "False"
                /\ q' = q /\ nextId' = nextId /\ enq' = enq
          /\ (pcP[p] = "return" /\ plocals[p].n < 2 /\ pcP'[p] # "return") =>
                pcP'[p] = "idle" /\ q' = q /\ nextId' = nextId]_vars

\* A call with one antenna returned False while both slots held a job.
C7_Witness ==
    /\ pcP[1] = "return" /\ plocals[1].n = 1 /\ pret[1] = "False"
    /\ \A s \in SlotNames : Len(q[s]) = 1

\* C8 (SpecSeq): a call of compute_sampling_image with at least 2 antennas
\* and image_width < 1 or image_height < 1 returns False (no exception);
\* neither queue changes and no job is created.
C8_InvalidImageSize ==
    [][\A p \in Producers :
          /\ (/\ pcP[p] = "idle" /\ pcP'[p] # "idle"
              /\ plocals'[p].n >= 2
              /\ (plocals'[p].w < 1 \/ plocals'[p].h < 1)) =>
                /\ pcP'[p] = "return" /\ pret'[p] = "False"
                /\ q' = q /\ nextId' = nextId /\ enq' = enq
          /\ (/\ pcP[p] = "return" /\ plocals[p].n >= 2
              /\ (plocals[p].w < 1 \/ plocals[p].h < 1)
              /\ pcP'[p] # "return") =>
                pcP'[p] = "idle" /\ q' = q /\ nextId' = nextId]_vars

\* A call with 2 antennas, a valid width and height 0 returned False while
\* both slots held a job.
C8_Witness ==
    /\ pcP[1] = "return" /\ plocals[1].n = 2 /\ pret[1] = "False"
    /\ plocals[1].w >= 1 /\ plocals[1].h < 1
    /\ \A s \in SlotNames : Len(q[s]) = 1

\* C9 (SpecSeq): degenerate geometry is not an error: a call with at least 2
\* antennas that all coincide (Bmax = 0) and a valid image size ends by
\* returning True.
C9_DegenerateGeometryProceeds ==
    \A p \in Producers :
        (/\ pcP[p] = "return" /\ plocals[p].n >= 2
         /\ plocals[p].w >= 1 /\ plocals[p].h >= 1
         /\ plocals[p].Bmax2 = 0) => pret[p] = "True"

\* C10 (SpecSeq): every index pair the rasterization loop uses on the sampling
\* array, for an input that passed the checks, lies inside the array of shape
\* (W + 1, 2H + 1) and is not negative.
C10_IndicesInsideGrid ==
    \A p \in Producers : \A c \in pcells[p] :
        /\ 0 <= c[1] /\ c[1] <= plocals[p].w
        /\ 0 <= c[2] /\ c[2] <= 2 * plocals[p].h

\* round((a * sqrt(M) + c) / (2 * sqrt(M))), halves away from zero, M >= 1.
RoundHalf(a, c, M) ==
    IF LeqSqrt(0 - a, M, c) THEN FloorHalf(a + 1, c, M)
                            ELSE 0 - FloorHalf(1 - a, 0 - c, M)

\* The cell the folding rule names for a baseline B, with s = B * scale:
\*   s.x >= 0:  (round(s.x), round(H/2 + s.y))
\*   s.x < 0:   (round(-s.x), round(H/2 - s.y))
FoldedCell(B, w, h, M) ==
    LET sx == B[1] * Scale2(w, h)
        sy == B[2] * Scale2(w, h)
    IN IF sx >= 0
       THEN <<RoundHalf(0, sx, M), RoundHalf(h, sy, M)>>
       ELSE <<RoundHalf(0, 0 - sx, M), RoundHalf(h, 0 - sy, M)>>

\* C11 (SpecSeq): conjugate folding: the rasterization loop marks, for every
\* baseline, the cell of the folding rule, (round(s.x), round(H/2 + s.y)) for
\* s.x >= 0 and (round(-s.x), round(H/2 - s.y)) for s.x < 0, so that no
\* first index is negative.  Stated for images wider and higher than twice
\* the margin (scale > 0), where the claim fails already.
C11_ConjugateFolding ==
    \A p \in Producers :
        (pcP[p] = "raster" /\ Scale2(plocals[p].w, plocals[p].h) > 0) =>
        \A b \in plocals[p].baselines :
            LET c == Cell(b[2], plocals[p].w, plocals[p].h, plocals[p].Bmax2)
            IN c \in pcells[p] =>
                  /\ c = FoldedCell(b[2], plocals[p].w, plocals[p].h,
                                    plocals[p].Bmax2)
                  /\ c[1] >= 0

\* The largest squared distance between two antennas of the list.
MaxDist2(antennas) ==
    LET ds == {(antennas[i][1] - antennas[j][1]) * (antennas[i][1] - antennas[j][1])
               + (antennas[i][2] - antennas[j][2]) * (antennas[i][2] - antennas[j][2]) :
               i \in 1..Len(antennas), j \in 1..Len(antennas)}
    IN CHOOSE m \in ds : \A d \in ds : d <= m

C13_JobsCarryConfiguredSize ==
    (pcP[1] = "return" /\ pret[1] = "True") =>
        \A s \in SlotNames :
            /\ Len(q[s]) = 1
            /\ Head(q[s]).allow_resize
            /\ Head(q[s]).width = plocals[1].w
            /\ Head(q[s]).height = plocals[1].h
            /\ Head(q[s]).pixels.len = 4 * plocals[1].w * plocals[1].h

\* C14 (SpecEnc): ndarray_to_pixels maps every source cell x under (low, high),
\* low < high, to (v, v, v, 1.0) with v = clip((x - low) / (high - low), low,
\* high): 4 values per cell, alpha 1.0.  Values are numerators over
\* high - low.
C14_EncoderMapping ==
    enc.low < enc.high =>
        /\ Len(enc.values) = 4 * Len(enc.array)
        /\ \A k \in 1..Len(enc.array) :
              LET d == enc.high - enc.low
                  v == np_clip(enc.array[k] - enc.low, enc.low * d, enc.high * d)
              IN /\ enc.values[4 * k - 3] = v
                 /\ enc.values[4 * k - 2] = v
                 /\ enc.values[4 * k - 1] = v
                 /\ enc.values[4 * k] = d

\* C19 (SpecApi): execute_image_pixel_update returns True exactly when image
\* pixel data was updated: the step by which a drain returns True has written
\* the pixels of its job to the job's image, and the step by which a drain
\* returns False has written nothing (no earlier step of a drain writes).
C19_TrueIffUpdated ==
    [][(pcC # "ret" /\ pcC' = "ret") =>
          /\ cret' = "True" =>
                /\ images' # images
                /\ images'[cjob.image].exists
                /\ images'[cjob.image].pixels = cjob.pixels
                /\ images'[cjob.image].job = cjob.id
          /\ cret' = "False" => images' = images /\ cran' = 0]_vars

\* C15 (SpecHost): a failed compute changes nothing that is displayed: the
\* steps by which compute_sampling_image returns False (the call that is
\* rejected and its return to the caller) and the step by which the operator
\* returns CANCELLED leave every image (pixels, source, size) and both queues
\* as they are and start no drain.
C15_FailedComputeChangesNothing ==
    [][/\ \A p \in Producers :
             (\/ pcP[p] = "idle" /\ pcP'[p] = "return" /\ pret'[p] = "False"
              \/ pcP[p] = "return" /\ pret[p] = "False" /\ pcP'[p] = "idle") =>
                /\ images' = images /\ q' = q
                /\ pcC' = pcC /\ caller' = caller
                /\ (p = 1 /\ pcP'[p] = "idle") => op' = "CANCELLED"
       /\ (op # "CANCELLED" /\ op' = "CANCELLED") =>
             /\ images' = images /\ q' = q
             /\ pcC = "idle" /\ pcC' = "idle" /\ caller' = "none"]_vars

\* compute_sampling_image is about to return False into the operator while
\* the Sampling image shows an earlier result and a later job is pending.
C15_Witness ==
    /\ op = "compute" /\ pcP[1] = "return" /\ pret[1] = "False"
    /\ images["sampling"].exists /\ images["sampling"].job = 1
    /\ Len(q["sampling"]) = 1 /\ Head(q["sampling"]).id = 3

C17_OnlyDrainWritesImages ==
    [][images' # images =>
          /\ pcC = "job" /\ pcC' = "ret"
          /\ images'[cjob.image].job = cjob.id
          /\ caller \in {"timer", "operator"}
          /\ caller = "operator" => op = "drain" /\ pcP[1] = "idle"
          /\ pcP' = pcP /\ images_updated' = images_updated]_vars

\* A drain called by the timer has written the Sampling image while the
\* depsgraph handler is inside compute_sampling_image.
C17_Witness ==
    /\ pcC = "ret" /\ caller = "timer" /\ cret = "True"
    /\ cslot = "sampling" /\ images["sampling"].job = cjob.id
    /\ pcP[2] \in {"clear_test", "clear_get", "put"}

\* C18 (SpecHost): the update timer unregisters itself when auto update is
\* off: a tick with auto_generate_images false returns None (one timer less)
\* and starts no drain; a tick with it true drains both slots and stays
\* registered, returning the interval; timers are dropped in no other way;
\* and while auto_generate_images is false no drain of a timer starts and no
\* job is applied by a timer.
C18_TimerStopsWhenAutoOff ==
    [][/\ (caller = "none" /\ caller' = "timer") =>
             /\ auto /\ timers > 0 /\ timers' = timers
             /\ pcC' = "test" /\ ccall' = "all" /\ cslot' = "sampling"
       /\ (caller = "timer" /\ caller' = "none") =>
             /\ cslot = "pointspread" /\ cret \in {"True", "False"}
             /\ timers' = timers /\ tret' = "interval"
       /\ timers' < timers =>
             /\ ~auto /\ timers' = timers - 1 /\ tret' = "None"
             /\ images' = images /\ q' = q
             /\ pcC = "idle" /\ pcC' = "idle" /\ caller' = "none"
       /\ ~auto => caller # "timer" /\ caller' # "timer"
       /\ (caller = "timer" /\ images' # images) => auto]_vars

\* Auto update is off, the last timer has returned None and is gone, and a
\* job computed while it was on is still pending.
C18_Witness ==
    /\ ~auto /\ timers = 0 /\ tret = "None"
    /\ Len(q["sampling"]) = 1 /\ pcC = "idle"

\* C20 as stated (SpecPair): whenever both slots are empty after a successful
\* compute, the Sampling and the PointSpread image hold the results of the
\* most recent successful compute (its two jobs are the last two closures
\* of the last enqueue that returned on the pointspread slot).  Stated for
\* the states where no drain is in progress, where it fails already.
C20_ConsistentWhenSlotsEmpty ==
    (/\ \A s \in SlotNames : q[s] = <<>>
     /\ pcC = "idle"
     /\ enq["pointspread"] # 0) =>
        /\ images["sampling"].job = enq["pointspread"] - 1
        /\ images["pointspread"].job = enq["pointspread"]

\* C20 as amended (SpecPair): whenever both slots are empty after a successful
\* compute and neither a compute nor a drain is in progress, the Sampling
\* and the PointSpread image hold the results of the most recent successful
\* compute.
C20_ConsistentWhenQuiet ==
    (/\ \A s \in SlotNames : q[s] = <<>>
     /\ pcP[1] = "idle" /\ pcC = "idle"
     /\ enq["pointspread"] # 0) =>
        /\ images["sampling"].job = enq["pointspread"] - 1
        /\ images["pointspread"].job = enq["pointspread"]
        /\ images["sampling"].pixels.lit = images["pointspread"].pixels.lit

\* Three computes have returned True, the drains ran in between and after,
\* and both images show the third one.
C20_Witness ==
    /\ \A s \in SlotNames : q[s] = <<>>
    /\ pcP[1] = "idle" /\ pcC = "idle"
    /\ enq["pointspread"] = 6
    /\ images["sampling"].job = 5 /\ images["pointspread"].job = 6
    /\ ran[1] = 1 /\ ran[4] = 1 /\ 2 \in cleared /\ 3 \in cleared

=============================================================================
